---- MODULE Spec2Model ----
(***************************************************************************)
(* Model of the scrape-to-markdown pipeline of mcp_scraper:                *)
(*   src/src/index.ts            scrapeToMarkdown, the scrape-to-markdown  *)
(*                               tool handler                              *)
(*   src/src/data_processing.ts  htmlToMarkdown                            *)
(*   src/src/data_processing.test.ts (second half: cli.ts)  runCli         *)
(* Strings are sequences of one-character strings, so that the regular     *)
(* expression passes of the code are computed character by character.      *)
(***************************************************************************)
EXTENDS Naturals, Sequences, FiniteSets, TLC

(***************************************************************************)
(* Bounds of the model.                                                    *)
(***************************************************************************)
\* Largest number of top-level elements of a document that combines
\* several elements (every single-element document is always included).
MaxBlocks == 2

(***************************************************************************)
(* Characters and general string helpers.                                  *)
(***************************************************************************)
\* Stands for the backtick character (U+0060), which a TLA+ string cannot
\* hold; every other character is the one-character string of itself.
BT == "bt"
NL == "\n"

\* The class \s of the regular expressions, over the alphabet of the model.
IsSpace(c) == c \in {" ", "\t", "\n", "\r"}

HasPrefixAt(s, i, p) ==
    /\ i >= 1
    /\ i + Len(p) - 1 <= Len(s)
    /\ SubSeq(s, i, i + Len(p) - 1) = p

Contains(s, p) == \E i \in 1..(Len(s) + 1) : HasPrefixAt(s, i, p)

RECURSIVE Concat(_)
Concat(ss) == IF ss = <<>> THEN <<>> ELSE Head(ss) \o Concat(Tail(ss))

\* Length of the run of characters c of s that starts at position i.
RECURSIVE RunLen(_, _, _)
RunLen(s, i, c) ==
    IF i <= Len(s) /\ s[i] = c THEN 1 + RunLen(s, i + 1, c) ELSE 0

\* Length of the run of \s characters of s that starts at position i.
RECURSIVE SpaceRun(_, _)
SpaceRun(s, i) ==
    IF i <= Len(s) /\ IsSpace(s[i]) THEN 1 + SpaceRun(s, i + 1) ELSE 0

Repeat(c, n) == [k \in 1..n |-> c]

(***************************************************************************)
(* The code-fence language hints of scrapeToMarkdown (index.ts 345-347).   *)
(***************************************************************************)
KwClass    == <<"c","l","a","s","s">>
KwFunction == <<"f","u","n","c","t","i","o","n">>
KwImport   == <<"i","m","p","o","r","t">>
KwConst    == <<"c","o","n","s","t">>
KwLet      == <<"l","e","t">>
KwVar      == <<"v","a","r">>
KwIf       == <<"i","f">>
KwFor      == <<"f","o","r">>
KwWhile    == <<"w","h","i","l","e">>
KwDef      == <<"d","e","f">>
KwFrom     == <<"f","r","o","m">>
KwWith     == <<"w","i","t","h">>

\* (class|function|import|const|let|var|if|for|while), in the order of the
\* alternation.
JsKeywords ==
    <<KwClass, KwFunction, KwImport, KwConst, KwLet, KwVar, KwIf, KwFor, KwWhile>>

\* (def|class|import|from|with|if|for|while), in the order of the alternation.
PyKeywords ==
    <<KwDef, KwClass, KwImport, KwFrom, KwWith, KwIf, KwFor, KwWhile>>

TagJavascript == <<"j","a","v","a","s","c","r","i","p","t">>
TagPython     == <<"p","y","t","h","o","n">>

\* The literal three backticks and newline both patterns start with.
FenceNl == <<BT, BT, BT, NL>>

\* Index of the first alternative of kws that matches s at position i and
\* is followed by at least minSpace characters of \s; 0 when none does.
AltAt(s, i, kws, minSpace) ==
    LET ok == {k \in 1..Len(kws) :
                  /\ HasPrefixAt(s, i, kws[k])
                  /\ SpaceRun(s, i + Len(kws[k])) >= minSpace}
    IN IF ok = {} THEN 0 ELSE CHOOSE k \in ok : \A j \in ok : k <= j

\* s.replace(/BT BT BT \n (kws) (\s+ when minSpace = 1)/g, BT BT BT tag \n $1 $2):
\* the matches are found left to right, each search resuming after the end
\* of the previous match; the space run is matched greedily.
RECURSIVE ReplaceFrom(_, _, _, _, _)
ReplaceFrom(s, i, kws, minSpace, tag) ==
    IF i > Len(s) THEN <<>>
    ELSE LET k == IF HasPrefixAt(s, i, FenceNl)
                    THEN AltAt(s, i + 4, kws, minSpace) ELSE 0
         IN IF k = 0
              THEN <<s[i]>> \o ReplaceFrom(s, i + 1, kws, minSpace, tag)
              ELSE LET kwEnd == i + 4 + Len(kws[k])
                       sp    == IF minSpace = 0 THEN 0 ELSE SpaceRun(s, kwEnd)
                   IN <<BT, BT, BT>> \o tag \o <<NL>>
                        \o SubSeq(s, i + 4, kwEnd + sp - 1)
                        \o ReplaceFrom(s, kwEnd + sp, kws, minSpace, tag)

\* Mutant: the javascript pattern without its g flag, which replaces the
\* first match only.
RECURSIVE ReplaceFirstFrom(_, _, _, _, _)
ReplaceFirstFrom(s, i, kws, minSpace, tag) ==
    IF i > Len(s) THEN <<>>
    ELSE LET k == IF HasPrefixAt(s, i, FenceNl)
                    THEN AltAt(s, i + 4, kws, minSpace) ELSE 0
         IN IF k = 0
              THEN <<s[i]>> \o ReplaceFirstFrom(s, i + 1, kws, minSpace, tag)
              ELSE <<BT, BT, BT>> \o tag \o SubSeq(s, i + 3, Len(s))

ReplaceJavascriptFirstOnly(md) ==
    ReplaceFirstFrom(md, 1, JsKeywords, 0, TagJavascript)

\* index.ts 346
ReplaceJavascript(md) == ReplaceFrom(md, 1, JsKeywords, 0, TagJavascript)

\* Mutant: the Python pattern without its (\s+).
ReplacePythonNoSpace(md) == ReplaceFrom(md, 1, PyKeywords, 0, TagPython)

\* index.ts 347
ReplacePython(md) == ReplaceFrom(md, 1, PyKeywords, 1, TagPython)

\* Mutant: the two substitutions in the other order.
ClassifyPythonFirst(md) == ReplaceJavascript(ReplacePython(md))

\* The two substitutions in the order the code applies them.
Classify(md) == ReplacePython(ReplaceJavascript(md))

(***************************************************************************)
(* HTML documents.  A document is the sequence of its top-level elements,  *)
(* each a record [tag, text, close]: <p>text</p>, <pre><code>text</code>   *)
(* </pre>, <style>text</style>, and <script>text followed by the end tag   *)
(* written "</script>" (close = "exact") or "</script >" (close =          *)
(* "spaced", which an HTML parser reads as the same end tag).              *)
(***************************************************************************)
El(tag, text, close) == [tag |-> tag, text |-> text, close |-> close]

TxClassX     == <<"c", "l", "a", "s", "s", " ", "X">>
TxImportA    == <<"i", "m", "p", "o", "r", "t", " ", "a">>
TxIfX        == <<"i", "f", " ", "x">>
TxForX       == <<"f", "o", "r", " ", "x">>
TxWhileX     == <<"w", "h", "i", "l", "e", " ", "1">>
TxIffy       == <<"i", "f", "f", "y">>
TxClass      == <<"c", "l", "a", "s", "s">>
TxLet        == <<"l", "e", "t">>
TxConstX     == <<"c", "o", "n", "s", "t", " ", "x">>
TxFunction   == <<"f", "u", "n", "c", "t", "i", "o", "n", "(", ")">>
TxVar        == <<"v", "a", "r", "\t", "v">>
TxDefF       == <<"d", "e", "f", " ", "f", ":", NL, " ", "p">>
TxFromA      == <<"f", "r", "o", "m", " ", "a">>
TxWithTab    == <<"w", "i", "t", "h", "\t", "x">>
TxDefine     == <<"d", "e", "f", "i", "n", "e">>
TxDef        == <<"d", "e", "f">>
TxAssign     == <<"x", "=", "1">>
TxIndented   == <<" ", "d", "e", "f", " ", "f">>
TxBlank      == <<" ">>
TxTicksMid   == <<"x", BT, BT, BT, NL, "i", "f", " ", "y">>
TxTicksLine  == <<BT, BT, BT, NL, "f", "r", "o", "m", " ", "a">>
TxClassTicks == <<"c", "l", "a", "s", "s", " ", "A", NL, BT, BT, BT>>
TxHello      == <<"H", "i">>
TxTicks      == <<BT, BT, BT>>
TxAlert      == <<"a", "l", "e", "r", "t">>
TxCss        == <<"b", "{", "}">>
TxTitle      == <<"T", "i", "t", "l", "e">>

\* The contents of <pre><code> the documents are built from.
CodeTexts ==
    {TxClassX, TxImportA, TxIfX, TxForX, TxWhileX, TxIffy, TxClass,
     TxLet, TxConstX, TxFunction, TxVar,
     TxDefF, TxFromA, TxWithTab, TxDefine, TxDef,
     TxAssign, TxIndented, TxBlank,
     TxTicksMid, TxTicksLine, TxClassTicks}

ParagraphTexts == {TxHello, TxIfX, TxTicks}

\* The texts of the h1 and h2 elements.
HeadingTexts == {TxTitle, TxTicks}

\* Elements an article extracted by Readability can hold (Readability drops
\* script and style elements and all class attributes).
ContentElements ==
    {El("pre", t, "exact") : t \in CodeTexts}
        \cup {El("p", t, "exact") : t \in ParagraphTexts}
        \cup {El(h, t, "exact") : h \in {"h1", "h2"}, t \in HeadingTexts}

ScriptElements ==
    {El("script", TxAlert, "exact"), El("script", TxAlert, "spaced")}

StyleElements == {El("style", TxCss, "exact")}

\* Elements of the documents that combine several elements.
CoreContent ==
    {El("pre", TxClassX, "exact"), El("pre", TxDefF, "exact"),
     El("pre", TxTicksMid, "exact"), El("p", TxIfX, "exact"),
     El("pre", TxLet, "exact"),
     El("h1", TxTitle, "exact"), El("h2", TxTicks, "exact")}

SeqsUpTo(S, n) == UNION {[1..k -> S] : k \in 2..n}

\* article.content values of a successful extraction.
ArticleContents ==
    {<<e>> : e \in ContentElements} \cup SeqsUpTo(CoreContent, MaxBlocks)

\* Contents of a file given to --html-file: any HTML.
HtmlFiles ==
    {<<e>> : e \in ContentElements \cup ScriptElements \cup StyleElements}
        \cup SeqsUpTo(CoreContent \cup ScriptElements \cup StyleElements,
                      MaxBlocks)

(***************************************************************************)
(* htmlToMarkdown (data_processing.ts 9-19).                               *)
(***************************************************************************)
\* html.replace(/<script\b[^<]*(?:(?!<\/script>)<[^<]*)*<\/script>/gi, ''):
\* a match starts at a "<script" and ends at the first literal "</script>"
\* after it, whatever lies between; with no literal "</script>" after it
\* there is no match there.  The search resumes after each match.
RECURSIVE RemoveScriptsFrom(_, _)
RemoveScriptsFrom(html, i) ==
    IF i > Len(html) THEN <<>>
    ELSE LET ends == {j \in i..Len(html) :
                         html[j].tag = "script" /\ html[j].close = "exact"}
         IN IF html[i].tag = "script" /\ ends # {}
              THEN RemoveScriptsFrom(html,
                       (CHOOSE j \in ends : \A k \in ends : j <= k) + 1)
              ELSE <<html[i]>> \o RemoveScriptsFrom(html, i + 1)

RemoveScripts(html) == RemoveScriptsFrom(html, 1)

\* turndown escapes Markdown syntax in text nodes; of the alphabet of the
\* model only the backtick is affected.
RECURSIVE Escape(_)
Escape(t) ==
    IF t = <<>> THEN <<>>
    ELSE (IF Head(t) = BT THEN <<"\\", BT>> ELSE <<Head(t)>>) \o Escape(Tail(t))

IsBlankText(t) == \A i \in 1..Len(t) : IsSpace(t[i])

\* turndown's fence: three backticks, or one more than the longest run of
\* three or more backticks that starts a line of the code.
FenceSize(code) ==
    LET starts == {i \in 1..Len(code) : i = 1 \/ code[i - 1] = NL}
        runs   == {RunLen(code, i, BT) : i \in starts}
        long   == {n \in runs : n >= 3}
    IN IF long = {} THEN 3
       ELSE (CHOOSE n \in long : \A m \in long : m <= n) + 1

\* code.replace(/\n$/, '')
DropFinalNewline(code) ==
    IF code # <<>> /\ code[Len(code)] = NL
      THEN SubSeq(code, 1, Len(code) - 1) ELSE code

\* turndown's fencedCodeBlock rule (codeBlockStyle: 'fenced'): the code is
\* copied verbatim between two fences.
FencedCodeBlock(code) ==
    LET fence == Repeat(BT, FenceSize(code))
    IN <<NL, NL>> \o fence \o <<NL>> \o DropFinalNewline(code)
          \o <<NL>> \o fence \o <<NL, NL>>

\* Mutant: the underline is one character short of the content.
SetextHeadingShort(level, content) ==
    <<NL, NL>> \o content \o <<NL>>
        \o Repeat(IF level = 1 THEN "=" ELSE "-", Len(content) - 1)
        \o <<NL, NL>>

\* turndown's heading rule for h1 and h2 (headingStyle 'setext', the
\* default): the converted content, and under it one = (h1) or - (h2) for
\* every character of that content.
SetextHeading(level, content) ==
    <<NL, NL>> \o content \o <<NL>>
        \o Repeat(IF level = 1 THEN "=" ELSE "-", Len(content))
        \o <<NL, NL>>

\* The replacement turndown produces for one element: a blank block element
\* leaves a blank line, a paragraph its escaped text between blank lines, a
\* heading its escaped text and an underline, a pre > code a fenced block;
\* script and style have no rule and are not block elements, so their text
\* is emitted inline.
Replacement(e) ==
    CASE e.tag = "pre" ->
           IF IsBlankText(e.text) THEN <<NL, NL>> ELSE FencedCodeBlock(e.text)
      [] e.tag \in {"h1", "h2"} ->
           IF IsBlankText(e.text) THEN <<NL, NL>>
           ELSE SetextHeading(IF e.tag = "h1" THEN 1 ELSE 2, Escape(e.text))
      [] e.tag = "p" ->
           IF IsBlankText(e.text) THEN <<NL, NL>>
           ELSE <<NL, NL>> \o Escape(e.text) \o <<NL, NL>>
      [] OTHER -> Escape(e.text)

RECURSIVE LeadingNewlines(_)
LeadingNewlines(s) ==
    IF s # <<>> /\ Head(s) = NL THEN 1 + LeadingNewlines(Tail(s)) ELSE 0

RECURSIVE TrailingNewlines(_)
TrailingNewlines(s) ==
    IF s # <<>> /\ s[Len(s)] = NL
      THEN 1 + TrailingNewlines(SubSeq(s, 1, Len(s) - 1)) ELSE 0

Min(a, b) == IF a <= b THEN a ELSE b
Max(a, b) == IF a >= b THEN a ELSE b

\* turndown's join: the newlines between two replacements are the larger of
\* the two runs, at most two.
Join(output, replacement) ==
    LET t  == TrailingNewlines(output)
        l  == LeadingNewlines(replacement)
        s1 == SubSeq(output, 1, Len(output) - t)
        s2 == SubSeq(replacement, l + 1, Len(replacement))
    IN s1 \o Repeat(NL, Min(2, Max(t, l))) \o s2

RECURSIVE Process(_, _)
Process(html, output) ==
    IF html = <<>> THEN output
    ELSE Process(Tail(html), Join(output, Replacement(Head(html))))

\* turndown's postProcess: leading tabs and newlines and trailing white space
\* are trimmed.
RECURSIVE TrimEnd(_)
TrimEnd(s) ==
    IF s # <<>> /\ IsSpace(s[Len(s)])
      THEN TrimEnd(SubSeq(s, 1, Len(s) - 1)) ELSE s

RECURSIVE TrimStart(_)
TrimStart(s) ==
    IF s # <<>> /\ Head(s) \in {"\t", "\r", NL} THEN TrimStart(Tail(s)) ELSE s

\* turndownService.turndown(cleanHtml)
Turndown(html) == TrimEnd(TrimStart(Process(html, <<>>)))

htmlToMarkdown(html) == Turndown(RemoveScripts(html))

(***************************************************************************)
(* State.  One invocation of the tool handler or of the command line is    *)
(* followed from its start to its result.                                  *)
(***************************************************************************)
VARIABLES
    pc,        \* position of the invocation in the code
    caller,    \* "tool", "cliUrl" or "cliFile" ("none" before the start)
    response,  \* what fetch settled with
    article,   \* what reader.parse() returned
    html,      \* the argument of htmlToMarkdown
    cleanHtml, \* the HTML with the script tags cut out
    markdown,  \* the Markdown text so far
    thrown,    \* the error on its way to a catch clause
    result,    \* what the handler returned, or the command line wrote
    stages,    \* history: the steps of the pipeline that have run, in order
    fetches    \* history: the number of fetch calls issued

vars ==
    <<pc, caller, response, article, html, cleanHtml, markdown, thrown, result,
      stages, fetches>>

\* HTTP statuses the model lets fetch answer with.
Statuses == {200, 404, 500}

NoResponse == [kind |-> "unset"]
Rejected   == [kind |-> "rejected"]
Response(status) ==
    [kind |-> "response", status |-> status, ok |-> status \in 200..299]

NoArticle   == [kind |-> "unset"]
NullArticle == [kind |-> "null"]
Article(content) == [kind |-> "article", content |-> content]

NoError == [kind |-> "none"]
Error(name, message) == [kind |-> "error", name |-> name, message |-> message]

NoResult == [kind |-> "unset"]

Init ==
    /\ pc = "idle"
    /\ caller = "none"
    /\ response = NoResponse
    /\ article = NoArticle
    /\ html = <<>>
    /\ cleanHtml = <<>>
    /\ markdown = <<>>
    /\ thrown = NoError
    /\ result = NoResult
    /\ stages = <<>>
    /\ fetches = 0

(***************************************************************************)
(* Entry points.                                                           *)
(***************************************************************************)
\* The scrape-to-markdown tool handler is called (index.ts 368-370).
ToolInvoke ==
    /\ pc = "idle"
    /\ pc' = "fetch"
    /\ caller' = "tool"
    /\ UNCHANGED <<response, article, html, cleanHtml, markdown, thrown,
                   result, stages, fetches>>

\* runCli with a URL argument (cli.ts: the else branch, scrapeToMarkdown).
CliUrlMode ==
    /\ pc = "idle"
    /\ pc' = "fetch"
    /\ caller' = "cliUrl"
    /\ UNCHANGED <<response, article, html, cleanHtml, markdown, thrown,
                   result, stages, fetches>>

\* runCli with --html-file: the file is read and handed to htmlToMarkdown;
\* a failing read is rethrown as "Error reading HTML file: ...".
CliHtmlFileMode ==
    /\ pc = "idle"
    /\ caller' = "cliFile"
    /\ \/ \E content \in HtmlFiles :
             /\ html' = content
             /\ pc' = "sanitize"
             /\ thrown' = thrown
       \/ /\ thrown' = Error("Error", "Error reading HTML file: ENOENT")
          /\ pc' = "cliCatch"
          /\ html' = html
    /\ UNCHANGED <<cleanHtml, response, article, markdown, result, stages,
                   fetches>>

(***************************************************************************)
(* scrapeToMarkdown (index.ts 309-353).                                    *)
(***************************************************************************)
\* await fetch(url, ...): settles with a response of some status, or rejects
\* (a network failure: TypeError "fetch failed").
Fetch ==
    /\ pc = "fetch"
    /\ fetches' = fetches + 1
    /\ stages' = Append(stages, "fetch")
    /\ \/ \E status \in Statuses :
             /\ response' = Response(status)
             /\ pc' = "response"
             /\ thrown' = thrown
       \/ /\ response' = Rejected
          /\ thrown' = Error("TypeError", "fetch failed")
          /\ pc' = "catch"
    /\ UNCHANGED <<caller, article, html, cleanHtml, markdown, result>>

\* if (!response.ok) throw new Error('Failed to fetch URL: ' + status)
CheckResponse ==
    /\ pc = "response"
    /\ IF response.ok
         THEN /\ pc' = "parse"
              /\ thrown' = thrown
         ELSE /\ thrown' = Error("Error", "Failed to fetch URL: "
                                            \o ToString(response.status))
              /\ pc' = "catch"
    /\ UNCHANGED <<caller, response, article, html, cleanHtml, markdown,
                   result, stages, fetches>>

\* response.text() and new JSDOM(htmlContent, ...)
ParseDom ==
    /\ pc = "parse"
    /\ pc' = "extract"
    /\ stages' = Append(stages, "parse")
    /\ UNCHANGED <<caller, response, article, html, cleanHtml, markdown,
                   thrown, result, fetches>>

\* new Readability(document).parse(): null, an article without content, or
\* an article whose content is the extracted HTML.
ReadabilityParse ==
    /\ pc = "extract"
    /\ article' \in {NullArticle, Article(<<>>)}
                       \cup {Article(c) : c \in ArticleContents}
    /\ pc' = "article"
    /\ stages' = Append(stages, "extract")
    /\ UNCHANGED <<caller, response, html, cleanHtml, markdown, thrown,
                   result, fetches>>

\* !article || !article.content
ExtractionFailed(a) == a.kind = "null" \/ a.content = <<>>

\* Mutant: only a null article is taken as a failure.
CheckArticleNullOnly ==
    /\ pc = "article"
    /\ IF article.kind = "null"
         THEN /\ thrown' = Error("Error", "Failed to parse article content")
              /\ pc' = "catch"
              /\ html' = html
         ELSE /\ html' = article.content
              /\ pc' = "sanitize"
              /\ thrown' = thrown
    /\ UNCHANGED <<cleanHtml, caller, response, article, markdown, result,
                   stages, fetches>>

\* Mutant: article.content goes to turndown without the script removal.
CheckArticleSkipSanitize ==
    /\ pc = "article"
    /\ IF ExtractionFailed(article)
         THEN /\ thrown' = Error("Error", "Failed to parse article content")
              /\ pc' = "catch"
              /\ UNCHANGED <<html, cleanHtml>>
         ELSE /\ html' = article.content
              /\ cleanHtml' = article.content
              /\ pc' = "serialize"
              /\ thrown' = thrown
    /\ UNCHANGED <<caller, response, article, markdown, result, stages,
                   fetches>>

\* if (!article || !article.content) throw ...; otherwise article.content
\* is handed to htmlToMarkdown.
CheckArticle ==
    /\ pc = "article"
    /\ IF ExtractionFailed(article)
         THEN /\ thrown' = Error("Error", "Failed to parse article content")
              /\ pc' = "catch"
              /\ html' = html
         ELSE /\ html' = article.content
              /\ pc' = "sanitize"
              /\ thrown' = thrown
    /\ UNCHANGED <<cleanHtml, caller, response, article, markdown, result,
                   stages, fetches>>

\* htmlToMarkdown, first statement: the script tags are cut out of the HTML.
RemoveScriptTags ==
    /\ pc = "sanitize"
    /\ cleanHtml' = RemoveScripts(html)
    /\ pc' = "serialize"
    /\ stages' = Append(stages, "sanitize")
    /\ UNCHANGED <<html, caller, response, article, markdown, thrown, result,
                   fetches>>

\* Mutant: the Markdown of a file goes through the language hints too.
TurndownStepThenClassify ==
    /\ pc = "serialize"
    /\ markdown' = Turndown(cleanHtml)
    /\ pc' = "classify"
    /\ stages' = Append(stages, "serialize")
    /\ UNCHANGED <<caller, response, article, html, cleanHtml, thrown, result,
                   fetches>>

\* htmlToMarkdown, the rest: a new TurndownService converts the HTML; the
\* result goes back to the caller, scrapeToMarkdown or runCli.
TurndownStep ==
    /\ pc = "serialize"
    /\ markdown' = Turndown(cleanHtml)
    /\ pc' = IF caller = "cliFile" THEN "cliOut" ELSE "classify"
    /\ stages' = Append(stages, "serialize")
    /\ UNCHANGED <<caller, response, article, html, cleanHtml, thrown, result,
                   fetches>>

\* The two replace calls of index.ts 346-347.
ClassifyStep ==
    /\ pc = "classify"
    /\ markdown' = Classify(markdown)
    /\ pc' = "return"
    /\ stages' = Append(stages, "classify")
    /\ UNCHANGED <<caller, response, article, html, cleanHtml, thrown, result,
                   fetches>>

\* return markdown
Return ==
    /\ pc = "return"
    /\ pc' = IF caller = "tool" THEN "toolReturn" ELSE "cliOut"
    /\ UNCHANGED <<caller, response, article, html, cleanHtml, markdown,
                   thrown, result, stages, fetches>>

\* Mutant: the caught error is rethrown as it is.
Rethrown(error) == error

\* The error scrapeToMarkdown rethrows from its catch clause.
ScrapingError(error) == Error("Error", "Scraping error: " \o error.message)

\* catch (error) { throw new Error('Scraping error: ' + error.message) }
Catch ==
    /\ pc = "catch"
    /\ thrown' = ScrapingError(thrown)
    /\ pc' = IF caller = "tool" THEN "toolCatch" ELSE "cliCatch"
    /\ UNCHANGED <<caller, response, article, html, cleanHtml, markdown,
                   result, stages, fetches>>

(***************************************************************************)
(* The results of the tool handler (index.ts 372-382) and of runCli.       *)
(* text holds Markdown as characters; the text of an error is kept apart   *)
(* in message, as a string.                                                *)
(***************************************************************************)
ToolResult(text) ==
    [kind |-> "tool", isError |-> FALSE, text |-> text, message |-> ""]

\* Mutant: the error result without its isError flag.
ToolErrorUnflagged(error) ==
    [kind |-> "tool", isError |-> FALSE, text |-> <<>>,
     message |-> "Error: " \o error.message]

ToolError(error) ==
    [kind |-> "tool", isError |-> TRUE, text |-> <<>>,
     message |-> "Error: " \o error.message]

ToolReturn ==
    /\ pc = "toolReturn"
    /\ result' = ToolResult(markdown)
    /\ pc' = "done"
    /\ UNCHANGED <<caller, response, article, html, cleanHtml, markdown,
                   thrown, stages, fetches>>

ToolCatch ==
    /\ pc = "toolCatch"
    /\ result' = ToolError(thrown)
    /\ pc' = "done"
    /\ UNCHANGED <<caller, response, article, html, cleanHtml, markdown,
                   thrown, stages, fetches>>

\* fs.writeFile(outputFile, markdown) or console.log(markdown)
CliOutput ==
    /\ pc = "cliOut"
    /\ \E toFile \in BOOLEAN :
          result' = [kind |-> "cli", exit |-> 0, toFile |-> toFile,
                     text |-> markdown, message |-> ""]
    /\ pc' = "done"
    /\ UNCHANGED <<caller, response, article, html, cleanHtml, markdown,
                   thrown, stages, fetches>>

\* console.error(error.message); process.exit(1)
CliCatch ==
    /\ pc = "cliCatch"
    /\ result' = [kind |-> "cli", exit |-> 1, toFile |-> FALSE,
                  text |-> <<>>, message |-> thrown.message]
    /\ pc' = "done"
    /\ UNCHANGED <<caller, response, article, html, cleanHtml, markdown,
                   thrown, stages, fetches>>

Next ==
    \/ ToolInvoke
    \/ CliUrlMode
    \/ CliHtmlFileMode
    \/ Fetch
    \/ CheckResponse
    \/ ParseDom
    \/ ReadabilityParse
    \/ CheckArticle
    \/ RemoveScriptTags
    \/ TurndownStep
    \/ ClassifyStep
    \/ Return
    \/ Catch
    \/ ToolReturn
    \/ ToolCatch
    \/ CliOutput
    \/ CliCatch

Spec == Init /\ [][Next]_vars

(***************************************************************************)
(* Observers used by the properties: how a Markdown reader sees the text.  *)
(***************************************************************************)
Range(f) == {f[i] : i \in DOMAIN f}

\* The lines of s (the text between its newlines).
RECURSIVE SplitLines(_, _)
SplitLines(s, line) ==
    IF s = <<>> THEN <<line>>
    ELSE IF Head(s) = NL THEN <<line>> \o SplitLines(Tail(s), <<>>)
    ELSE SplitLines(Tail(s), Append(line, Head(s)))

\* The fenced code blocks of the lines ls, in order: a line that starts with
\* three or more backticks opens a block, whose info string is the rest of
\* that line; a line of at least as many backticks and nothing else closes
\* it.  open is the length of the fence of the block being read (0: none).
RECURSIVE ReadBlocks(_, _, _)
ReadBlocks(ls, open, acc) ==
    IF ls = <<>> THEN acc
    ELSE LET l == Head(ls)
             n == RunLen(l, 1, BT)
         IN IF open = 0
              THEN IF n >= 3
                     THEN ReadBlocks(Tail(ls), n,
                              Append(acc, [ticks |-> n,
                                           info  |-> SubSeq(l, n + 1, Len(l)),
                                           body  |-> <<>>]))
                     ELSE ReadBlocks(Tail(ls), 0, acc)
              ELSE IF n >= open /\ n = Len(l)
                     THEN ReadBlocks(Tail(ls), 0, acc)
                     ELSE ReadBlocks(Tail(ls), open,
                              [acc EXCEPT ![Len(acc)].body = Append(@, l)])

FencedBlocks(md) == ReadBlocks(SplitLines(md, <<>>), 0, <<>>)

\* The pre > code elements turndown renders as fenced blocks, in order.
IsCodeBlock(e) == e.tag = "pre" /\ ~IsBlankText(e.text)
CodeBlocks(doc) == SelectSeq(doc, IsCodeBlock)

StartsWithAny(t, kws) == \E k \in 1..Len(kws) : HasPrefixAt(t, 1, kws[k])

\* The keywords of both patterns.
SharedKeywords == <<KwClass, KwImport, KwIf, KwFor, KwWhile>>

\* t starts with one of kws and the character after the keyword is white
\* space.
StartsWithAnySpaced(t, kws) ==
    \E k \in 1..Len(kws) :
        /\ HasPrefixAt(t, 1, kws[k])
        /\ Len(t) > Len(kws[k])
        /\ IsSpace(t[Len(kws[k]) + 1])

Classified == "classify" \in Range(stages)

\* The text of code block k as it stands in the Markdown, up to and with
\* the newline that ends it before the closing fence.
CodeText(k) == DropFinalNewline(CodeBlocks(cleanHtml)[k].text) \o <<NL>>

RECURSIVE UntagLines(_, _)
UntagLines(ls, open) ==
    IF ls = <<>> THEN <<>>
    ELSE LET l == Head(ls)
             n == RunLen(l, 1, BT)
         IN IF open = 0
              THEN IF n >= 3
                     THEN <<IF SubSeq(l, n + 1, Len(l))
                                 \in {TagJavascript, TagPython}
                              THEN SubSeq(l, 1, n) ELSE l>>
                            \o UntagLines(Tail(ls), n)
                     ELSE <<l>> \o UntagLines(Tail(ls), 0)
              ELSE IF n >= open /\ n = Len(l)
                     THEN <<l>> \o UntagLines(Tail(ls), 0)
                     ELSE <<l>> \o UntagLines(Tail(ls), open)

RECURSIVE JoinLines(_)
JoinLines(ls) ==
    IF Len(ls) <= 1 THEN Concat(ls)
    ELSE Head(ls) \o <<NL>> \o JoinLines(Tail(ls))

Untag(md) == JoinLines(UntagLines(SplitLines(md, <<>>), 0))

ClassifyChangesOnlyOpeningFences ==
    [][pc = "classify" => Untag(markdown') = markdown]_vars

Serialized == "serialize" \in Range(stages)

NoScriptOrStyleTextInMarkdown ==
    Serialized =>
        \A i \in 1..Len(html) :
            html[i].tag \in {"script", "style"}
                => ~Contains(markdown, html[i].text)

(***************************************************************************)
(* C3.  As claimed: the stages of a scrape run in the order sanitize,      *)
(* extract, serialize, classify, normalize, sanitization once and before   *)
(* the extraction.                                                         *)
(***************************************************************************)
IsPrefix(a, b) == Len(a) <= Len(b) /\ SubSeq(b, 1, Len(a)) = a

Scraping == caller \in {"tool", "cliUrl"}

ClaimedStages == <<"sanitize", "extract", "serialize", "classify", "normalize">>

IsClaimedStage(st) == st \in Range(ClaimedStages)

StagesInClaimedOrder ==
    Scraping => IsPrefix(SelectSeq(stages, IsClaimedStage), ClaimedStages)

(***************************************************************************)
(* C3, amended.  The steps of a scrape run in the order fetch, parse,      *)
(* extract, script removal, serialize, classify, each at most once and     *)
(* none before the one before it has run: the script removal comes after   *)
(* the extraction and before the serialization, and nothing follows the    *)
(* classification; a scrape that returns has run all six.                  *)
(***************************************************************************)
ScrapeStages ==
    <<"fetch", "parse", "extract", "sanitize", "serialize", "classify">>

StagesInCodeOrder ==
    Scraping =>
        /\ IsPrefix(stages, ScrapeStages)
        /\ pc \in {"return", "toolReturn", "cliOut"} => stages = ScrapeStages

\* C3 witness: a scrape that has run every step, the script removal after
\* the extraction.
StagesInCodeOrderWitness ==
    /\ Scraping
    /\ pc = "return"
    /\ stages = ScrapeStages

(***************************************************************************)
(* C6.  Once the extraction step of scrapeToMarkdown is over, either it    *)
(* has failed (article null or its content empty: the error is thrown and  *)
(* nothing is serialized) or exactly one extracted content, the article's, *)
(* is what htmlToMarkdown gets, and it is serialized at most once.         *)
(***************************************************************************)
Count(seq, x) == Cardinality({i \in 1..Len(seq) : seq[i] = x})

ExtractionDone == Scraping /\ "extract" \in Range(stages) /\ pc # "article"

OneRootOrExtractionFailure ==
    ExtractionDone =>
        \/ /\ article.kind = "null" \/ article.content = <<>>
           /\ thrown.kind = "error"
           /\ "sanitize" \notin Range(stages)
           /\ "serialize" \notin Range(stages)
        \/ /\ article.kind = "article"
           /\ article.content # <<>>
           /\ html = article.content
           /\ thrown = NoError
           /\ Count(stages, "serialize") <= 1
           /\ (Serialized /\ ~Classified)
                 => markdown = htmlToMarkdown(article.content)

\* C6 witness: the content of an extracted article has been serialized.
OneRootSerializedWitness ==
    /\ ExtractionDone
    /\ article.kind = "article"
    /\ Serialized
    /\ html = article.content

(***************************************************************************)
(* C7.  A failed extraction ends the invocation: nothing is serialized or  *)
(* classified, fetch has been called exactly once, and the tool handler    *)
(* returns a result with isError true and the text "Error: ..." with the   *)
(* reason, no Markdown.                                                    *)
(***************************************************************************)
ExtractionHasFailed ==
    /\ ExtractionDone
    /\ article.kind = "null" \/ article.content = <<>>

ExtractionFailureIsTerminal ==
    ExtractionHasFailed =>
        /\ stages = <<"fetch", "parse", "extract">>
        /\ fetches = 1
        /\ pc \in {"catch", "toolCatch", "cliCatch", "done"}
        /\ (pc = "done" /\ caller = "tool") =>
              /\ result.kind = "tool"
              /\ result.isError
              /\ result.text = <<>>
              /\ result.message
                    = "Error: Scraping error: Failed to parse article content"

\* C7 witness: the tool handler has returned after a failed extraction.
ExtractionFailureWitness ==
    /\ ExtractionHasFailed
    /\ caller = "tool"
    /\ pc = "done"
    /\ result.isError

(***************************************************************************)
(* C8.  As claimed: the error the caller of scrapeToMarkdown gets for a    *)
(* failed fetch is the fetch failure itself, unchanged.                    *)
(***************************************************************************)
FetchHasFailed ==
    \/ response.kind = "rejected"
    \/ response.kind = "response" /\ ~response.ok

\* The error the fetch failure raised inside scrapeToMarkdown.
FetchFailure ==
    IF response.kind = "rejected" THEN Error("TypeError", "fetch failed")
    ELSE Error("Error", "Failed to fetch URL: " \o ToString(response.status))

ThrownToCaller == pc \in {"toolCatch", "cliCatch"}

FetchFailureSurfacedUnchanged ==
    (FetchHasFailed /\ ThrownToCaller) => thrown = FetchFailure

(***************************************************************************)
(* C8, amended.  A failed fetch reaches the caller of scrapeToMarkdown as  *)
(* a new Error whose message is "Scraping error: " followed by the message *)
(* of the fetch failure (which holds the status of a non-2xx response);    *)
(* none of parse, extract, serialize, classify has run.                    *)
(***************************************************************************)
FetchFailureSurfacedWrapped ==
    (FetchHasFailed /\ pc \in {"catch", "toolCatch", "cliCatch", "done"}) =>
        /\ stages = <<"fetch">>
        /\ ThrownToCaller =>
              /\ thrown.name = "Error"
              /\ thrown.message
                    = IF response.kind = "rejected"
                        THEN "Scraping error: fetch failed"
                        ELSE "Scraping error: Failed to fetch URL: "
                                \o ToString(response.status)

\* C8 witness: a response that is not 2xx has been thrown to the caller.
FetchFailureWitness ==
    /\ ThrownToCaller
    /\ response.kind = "response"
    /\ ~response.ok

(***************************************************************************)
(* C9.  As claimed: whatever the entry point (the tool, the command line   *)
(* with a URL or with --html-file), the Markdown written out has passed    *)
(* through extraction and code-fence classification.                       *)
(***************************************************************************)
MarkdownWritten ==
    /\ pc = "done"
    /\ \/ result.kind = "tool" /\ ~result.isError
       \/ result.kind = "cli" /\ result.exit = 0

EveryOutputExtractedAndClassified ==
    MarkdownWritten =>
        /\ "extract" \in Range(stages)
        /\ "classify" \in Range(stages)

(***************************************************************************)
(* C9, amended.  The tool and the command line with a URL write the result *)
(* of scrapeToMarkdown, which has passed through extraction, script        *)
(* removal, serialization and classification; the command line with        *)
(* --html-file writes the result of htmlToMarkdown on the file, which has  *)
(* passed through script removal and serialization only.                   *)
(***************************************************************************)
OutputPerEntryPoint ==
    MarkdownWritten =>
        IF caller = "cliFile"
          THEN /\ stages = <<"sanitize", "serialize">>
               /\ result.text = htmlToMarkdown(html)
          ELSE /\ stages = ScrapeStages
               /\ result.text = Classify(htmlToMarkdown(article.content))

\* C9 witness: --html-file has written a fenced block that the
\* classification would have tagged, untagged.
HtmlFileOutputWitness ==
    /\ MarkdownWritten
    /\ caller = "cliFile"
    /\ result.text # Classify(result.text)

(***************************************************************************)
(* C11.  As claimed: for every h1 or h2 element with text, htmlToMarkdown  *)
(* emits the text on one line and on the next line an underline of = (h1)  *)
(* or - (h2) as long as the visible text of the heading, consecutive       *)
(* headings one blank line apart.                                          *)
(***************************************************************************)
\* markdown holds what htmlToMarkdown returned.
HtmlToMarkdownReturned == Serialized /\ ~Classified

IsHeading(e) == e.tag \in {"h1", "h2"} /\ ~IsBlankText(e.text)

IsUnderline(l) ==
    /\ l # <<>>
    /\ \/ \A i \in 1..Len(l) : l[i] = "="
       \/ \A i \in 1..Len(l) : l[i] = "-"

\* The k-th smallest member of the set S of numbers.
Nth(S, k) == CHOOSE i \in S : Cardinality({j \in S : j < i}) = k - 1

\* The positions of the headings among the elements turndown converts, and
\* of the underlines among the lines of the Markdown.
HeadingPositions == {i \in 1..Len(cleanHtml) : IsHeading(cleanHtml[i])}
MarkdownLines == SplitLines(markdown, <<>>)
UnderlinePositions ==
    {j \in 1..Len(MarkdownLines) : IsUnderline(MarkdownLines[j])}

\* The text a Markdown reader sees in a line: a backslash before a backtick
\* is not shown.
RECURSIVE Unescape(_)
Unescape(l) ==
    IF l = <<>> THEN <<>>
    ELSE IF Len(l) >= 2 /\ l[1] = "\\" /\ l[2] = BT
           THEN <<BT>> \o Unescape(SubSeq(l, 3, Len(l)))
           ELSE <<Head(l)>> \o Unescape(Tail(l))

UnderlineChar(e) == IF e.tag = "h1" THEN "=" ELSE "-"

\* Every heading has its text line and its underline, and two headings that
\* follow each other are one blank line apart.
HeadingsLaidOut ==
    /\ Cardinality(UnderlinePositions) = Cardinality(HeadingPositions)
    /\ \A k \in 1..Cardinality(HeadingPositions) :
          LET e == cleanHtml[Nth(HeadingPositions, k)]
              j == Nth(UnderlinePositions, k)
          IN /\ j > 1
             /\ Unescape(MarkdownLines[j - 1]) = e.text
             /\ MarkdownLines[j][1] = UnderlineChar(e)
             /\ (k > 1 /\ Nth(HeadingPositions, k - 1)
                            = Nth(HeadingPositions, k) - 1)
                   => /\ Nth(UnderlinePositions, k - 1) = j - 3
                      /\ MarkdownLines[j - 2] = <<>>

UnderlineHasVisibleLength ==
    HtmlToMarkdownReturned =>
        /\ HeadingsLaidOut
        /\ \A k \in 1..Cardinality(HeadingPositions) :
              Len(MarkdownLines[Nth(UnderlinePositions, k)])
                  = Len(cleanHtml[Nth(HeadingPositions, k)].text)

(***************************************************************************)
(* C11, amended.  For every h1 or h2 element with plain text that turndown *)
(* converts, htmlToMarkdown emits the escaped text on one line and on the  *)
(* next line an underline of = (h1) or - (h2) as long as that emitted      *)
(* line, the backslashes of the escaped characters counted; consecutive    *)
(* headings are one blank line apart.                                      *)
(***************************************************************************)
UnderlineHasLengthOfEmittedLine ==
    HtmlToMarkdownReturned =>
        /\ HeadingsLaidOut
        /\ \A k \in 1..Cardinality(HeadingPositions) :
              LET j == Nth(UnderlinePositions, k)
              IN Len(MarkdownLines[j]) = Len(MarkdownLines[j - 1])

\* C11 witness: two headings that follow each other, the underline of one
\* longer than its visible text.
UnderlineLongerThanTextWitness ==
    /\ HtmlToMarkdownReturned
    /\ HeadingsLaidOut
    /\ \E k \in 2..Cardinality(HeadingPositions) :
          /\ Nth(HeadingPositions, k - 1) = Nth(HeadingPositions, k) - 1
          /\ Len(MarkdownLines[Nth(UnderlinePositions, k)])
                > Len(cleanHtml[Nth(HeadingPositions, k)].text)

(***************************************************************************)
(* C12.  The classification pass is idempotent: applied to its own output  *)
(* it changes nothing, whatever Markdown it was first applied to (the      *)
(* Markdown of a scrape, or the untagged Markdown of a converted file).    *)
(***************************************************************************)
ClassifyIsIdempotent ==
    /\ Classified => Classify(markdown) = markdown
    /\ Classify(Classify(markdown)) = Classify(markdown)

\* C12 witness: the pass has tagged one fence javascript and one python,
\* and a second pass leaves both as they are.
ClassifyTwiceWitness ==
    /\ Classified
    /\ \E j, k \in 1..Len(FencedBlocks(markdown)) :
          /\ FencedBlocks(markdown)[j].info = TagJavascript
          /\ FencedBlocks(markdown)[k].info = TagPython
    /\ Classify(markdown) = markdown
====
